---- MODULE Spec2Model ----
(***************************************************************************)
(* Model of ys::SegmentTree<TYPE> (src/segment_tree.hpp) and of the driver *)
(* src/main.cpp.  The tree is a flat array data_ of m_ + n_ slots in       *)
(* 1-based binary-heap layout: slot 0, internal nodes 1 .. n_-1, leaves    *)
(* n_ .. n_+m_-1.  Every member function is a pure operator on the         *)
(* instance fields; the actions apply them to inputs drawn from small sets.*)
(***************************************************************************)
EXTENDS Integers, Sequences, FiniteSets, TLC

\* Largest element count handed to prepare, and largest index handed to the
\* other member functions.
MaxM == 3

\* Largest element count handed to prepare on an instance prepared before.
MaxAgain == 2

\* TYPE(): the value std::vector::resize gives a new slot.
Default == 0

\* The element values the callers use.
Values == {-1, 0, 1}

\* The comparison functions the callers hand to prepare.
Comparators == {"asc", "abs", "zero"}

\* A null function pointer.
NullCompare == "null"

VARIABLES m_, n_, data_, compare_, err, op, ret, reads, writes, elems

vars == <<m_, n_, data_, compare_, err, op, ret, reads, writes, elems>>

----------------------------------------------------------------------------
(* Comparison functions *)

\* main.cpp's compare: ascending numeric order.
compare(left, right) ==
    IF left < right THEN -1 ELSE IF left > right THEN 1 ELSE 0

Abs(x) == IF x < 0 THEN -x ELSE x

\* The call through the function pointer compare_.  "abs" orders by
\* magnitude, so that -1 and 1 are equally ranked but distinguishable;
\* "zero" ranks everything equal.
Compare(c, a, b) ==
    CASE c = "asc"  -> compare(a, b)
      [] c = "abs"  -> compare(Abs(a), Abs(b))
      [] c = "zero" -> 0
      [] OTHER      -> 0

----------------------------------------------------------------------------
(* Storage.  A working copy s = [d, rd, wr, err] carries the array, the    *)
(* slots read and written so far, and the assertion that failed, if any.   *)

NoData == [i \in {} |-> Default]

\* data_[i] as an rvalue.  An index outside the vector is recorded in rd and
\* reported as undefined behaviour by Outcome; the value here is never used
\* after that.
At(d, i) == IF i \in DOMAIN d THEN d[i] ELSE Default

\* data_[i] = v
Put(d, i, v) == IF i \in DOMAIN d THEN [d EXCEPT ![i] = v] ELSE d

\* data_.resize(size): kept slots keep their values, new slots get TYPE().
resize(d, size) ==
    [i \in 0 .. (size - 1) |-> IF i \in DOMAIN d THEN d[i] ELSE Default]

Work(d) == [d |-> d, rd |-> {}, wr |-> {}, err |-> "none"]

----------------------------------------------------------------------------
(* Private member functions *)

set_leaf_simply(m, n, s, i, value) ==
    IF s.err # "none" THEN s
    ELSE IF ~(i < m) THEN [s EXCEPT !.err = "assert"]
    ELSE [s EXCEPT !.d = Put(@, i + n, value), !.wr = @ \cup {i + n}]

\* Variant of update_pick: 0 <= in place of 0 <, so a tie takes the right child.
update_pick_strict(c, d, h, k, e) ==
    IF k <= e
    THEN [h |-> IF 0 <= Compare(c, At(d, h), At(d, k)) THEN k ELSE h, rd |-> {h, k}]
    ELSE [h |-> h, rd |-> {h}]

\* Variant of update_pick: without the test k <= e.
update_pick_unbounded(c, d, h, k, e) ==
    [h |-> IF 0 < Compare(c, At(d, h), At(d, k)) THEN k ELSE h, rd |-> {h, k}]

\* update's if: the child whose value the parent takes (k, the right child,
\* only when it is no later than e, the last node of its level above a real
\* leaf, and strictly better), and the slots the condition reads.
update_pick(c, d, h, k, e) ==
    IF k <= e
    THEN [h |-> IF 0 < Compare(c, At(d, h), At(d, k)) THEN k ELSE h, rd |-> {h, k}]
    ELSE [h |-> h, rd |-> {h}]

RECURSIVE update_loop(_, _, _, _)
update_loop(c, s, i, e) ==
    IF 0 < i
    THEN LET i2 == i \div 2
             h  == i2 * 2
             k  == h + 1
             p  == update_pick(c, s.d, h, k, e)
         IN  update_loop(c,
                         [s EXCEPT !.d  = Put(@, i2, At(s.d, p.h)),
                                   !.rd = @ \cup p.rd \cup {p.h},
                                   !.wr = @ \cup {i2}],
                         i2, e \div 2)
    ELSE s

update(c, m, n, s, i) ==
    IF s.err # "none" THEN s
    ELSE IF ~(i < m) THEN [s EXCEPT !.err = "assert"]
    ELSE update_loop(c, s, i + n, m + n - 1)

\* Variant of get_value_sub_merge: the right candidate without comparing.
get_value_sub_merge_right(c, d, i, j) ==
    IF j = 0 THEN i ELSE IF i = 0 THEN j ELSE j

\* The last four lines of get_value_sub: the better of two candidates.
get_value_sub_merge(c, d, i, j) ==
    IF j = 0 THEN i
    ELSE IF i = 0 THEN j
    ELSE IF 0 >= Compare(c, At(d, i), At(d, j)) THEN i
    ELSE j

\* [i: the node found (0: none), rd: slots read, deep: a call that would
\* split a range of fewer than two leaves].
RECURSIVE get_value_sub(_, _, _, _, _, _, _)
get_value_sub(c, d, from, to, index, left, right) ==
    IF right < from \/ to < left THEN [i |-> 0, rd |-> {}, deep |-> FALSE]
    ELSE IF from <= left /\ right <= to
         THEN [i |-> index, rd |-> {}, deep |-> FALSE]
    ELSE IF left >= right THEN [i |-> 0, rd |-> {}, deep |-> TRUE]
    ELSE LET center == (left + right) \div 2
             a == get_value_sub(c, d, from, to, index * 2, left, center)
             b == get_value_sub(c, d, from, to, index * 2 + 1, center + 1, right)
         IN  [i    |-> get_value_sub_merge(c, d, a.i, b.i),
              rd   |-> a.rd \cup b.rd
                       \cup (IF a.i # 0 /\ b.i # 0 THEN {a.i, b.i} ELSE {}),
              deep |-> a.deep \/ b.deep]

----------------------------------------------------------------------------
(* Public member functions.  Each returns the instance fields after the    *)
(* call, the slots it read and wrote, its result and how it ended:         *)
(* "none" (returned), "assert" (an assertion failed: abort) or "ub" (an    *)
(* access outside data_: undefined behaviour).                             *)

Outcome(m, n, d, c, s, r) ==
    LET ub == ~((s.rd \cup s.wr) \subseteq DOMAIN s.d)
    IN  [m |-> m, n |-> n, d |-> s.d, cmp |-> c, rd |-> s.rd, wr |-> s.wr,
         ret |-> r,
         err |-> IF s.err # "none" THEN s.err ELSE IF ub THEN "ub" ELSE "none"]

\* The result of a member function that returns void.
NoRet == [kind |-> "none", v |-> 0]

\* An assertion at the head of a public member function failed.
Abort(m, n, d, c) ==
    [m |-> m, n |-> n, d |-> d, cmp |-> c, rd |-> {}, wr |-> {},
     ret |-> NoRet, err |-> "assert"]

\* Variant of grow: n_ <= n in place of n_ < n.
RECURSIVE grow_inclusive(_, _)
grow_inclusive(nn, n) == IF nn <= n THEN grow_inclusive(nn * 2, n) ELSE nn

\* n_ = 1; while (n_ < n) n_ *= 2;
RECURSIVE grow(_, _)
grow(nn, n) == IF nn < n THEN grow(nn * 2, n) ELSE nn

RECURSIVE leaf_loop(_, _, _, _, _)
leaf_loop(m, n, s, data, i) ==
    IF i < m
    THEN leaf_loop(m, n, set_leaf_simply(m, n, s, i, data[i + 1]), data, i + 1)
    ELSE s

RECURSIVE internal_loop(_, _, _, _, _)
internal_loop(c, m, n, s, i) ==
    IF i < m
    THEN internal_loop(c, m, n, update(c, m, n, s, i), i + 2)
    ELSE s

\* prepare(data, n, compare) on an instance whose vector is d0.  isnull: the
\* pointer data is null.
prepare(m0, n0, d0, c0, isnull, data, n, c) ==
    IF isnull \/ n = 0 \/ c = NullCompare THEN Abort(m0, n0, d0, c0)
    ELSE LET nn == grow(1, n)
             s0 == Work(resize(d0, n + nn))
             s1 == leaf_loop(n, nn, s0, data, 0)
             s2 == internal_loop(c, n, nn, s1, 0)
         IN  Outcome(n, nn, s0.d, c, s2, NoRet)

\* Variant of set_leaf: the leaf is set and the internal nodes are not updated.
set_leaf_no_update(m, n, d, c, i, value) ==
    IF ~(i < m) THEN Abort(m, n, d, c)
    ELSE Outcome(m, n, d, c, set_leaf_simply(m, n, Work(d), i, value), NoRet)

\* Variant of set_leaf: i taken as a 1-based index.
set_leaf_one_based(m, n, d, c, i, value) ==
    IF i = 0 \/ ~(i - 1 < m) THEN Abort(m, n, d, c)
    ELSE LET s1 == set_leaf_simply(m, n, Work(d), i - 1, value)
             s2 == update(c, m, n, s1, i - 1)
         IN  Outcome(m, n, d, c, s2, NoRet)

set_leaf(m, n, d, c, i, value) ==
    IF ~(i < m) THEN Abort(m, n, d, c)
    ELSE LET s1 == set_leaf_simply(m, n, Work(d), i, value)
             s2 == update(c, m, n, s1, i)
         IN  Outcome(m, n, d, c, s2, NoRet)

\* Variant of get_value_checks: to <= m_ in place of to < m_.
get_value_checks_loose(m, from, to) == from <= to /\ to <= m

\* The two assertions at the head of get_value.
get_value_checks(m, from, to) == from <= to /\ to < m

get_value(m, n, d, c, from, to) ==
    IF ~get_value_checks(m, from, to) THEN Abort(m, n, d, c)
    ELSE LET r == get_value_sub(c, d, from + 1, to + 1, 1, 1, n)
         IN  IF r.i = 0
             THEN [Abort(m, n, d, c) EXCEPT !.rd = r.rd]
             ELSE Outcome(m, n, d, c,
                          [Work(d) EXCEPT !.rd = r.rd \cup {r.i}],
                          [kind |-> "value", v |-> At(d, r.i)])

\* Variant of get_raw_data: i <= m_ + n_ in place of i < m_ + n_.
get_raw_data_inclusive(m, n, i) ==
    IF i <= m + n THEN [kind |-> "ref", v |-> i] ELSE [kind |-> "null", v |-> 0]

\* The result is a pointer to slot i ("ref") or the null pointer.
get_raw_data(m, n, i) ==
    IF i < m + n THEN [kind |-> "ref", v |-> i] ELSE [kind |-> "null", v |-> 0]

----------------------------------------------------------------------------
(* The program: one instance and its callers *)

\* The arrays of at most max elements a caller hands to prepare.
Arrays(max) == UNION {[1 .. k -> Values] : k \in 0 .. max}

\* The flat indices a caller hands to get_raw_data.
RawIndices == 0 .. (MaxM + grow(1, MaxM) + 1)

NoOp == [name |-> "new", x |-> 0, y |-> 0, isnull |-> FALSE, data |-> <<>>,
         cmp |-> NullCompare]

\* SegmentTree(): m_(0), n_(0), compare_(0), an empty vector.
Init ==
    /\ m_ = 0
    /\ n_ = 0
    /\ data_ = NoData
    /\ compare_ = NullCompare
    /\ err = "none"
    /\ op = NoOp
    /\ ret = NoRet
    /\ reads = {}
    /\ writes = {}
    /\ elems = <<>>

\* The instance and the call's footprint after a member function ended in r.
Finish(r) ==
    /\ m_' = r.m
    /\ n_' = r.n
    /\ data_' = r.d
    /\ compare_' = r.cmp
    /\ err' = r.err
    /\ ret' = r.ret
    /\ reads' = r.rd
    /\ writes' = r.wr

PrepareCall(max) ==
    \E isnull \in BOOLEAN, data \in Arrays(max), c \in Comparators \cup {NullCompare} :
        /\ isnull => data = <<>>
        /\ LET r == prepare(m_, n_, data_, compare_, isnull, data, Len(data), c)
           IN  /\ Finish(r)
               /\ op' = [name |-> "prepare", x |-> Len(data), y |-> 0,
                         isnull |-> isnull, data |-> data, cmp |-> c]
               /\ elems' = IF r.err = "none" THEN data ELSE elems

\* The first prepare of an instance.
Prepare ==
    /\ err = "none"
    /\ m_ = 0
    /\ PrepareCall(MaxM)

\* prepare on an instance that was prepared before.
PrepareAgain ==
    /\ err = "none"
    /\ m_ > 0
    /\ PrepareCall(MaxAgain)

SetLeaf ==
    /\ err = "none"
    /\ \E i \in 0 .. MaxM, value \in Values :
        LET r == set_leaf(m_, n_, data_, compare_, i, value)
        IN  /\ Finish(r)
            /\ op' = [NoOp EXCEPT !.name = "set_leaf", !.x = i, !.y = value]
            /\ elems' = IF r.err = "none" THEN [elems EXCEPT ![i + 1] = value]
                        ELSE elems

GetValue ==
    /\ err = "none"
    /\ \E from \in 0 .. MaxM, to \in 0 .. MaxM :
        LET r == get_value(m_, n_, data_, compare_, from, to)
        IN  /\ Finish(r)
            /\ op' = [NoOp EXCEPT !.name = "get_value", !.x = from, !.y = to]
            /\ UNCHANGED elems

GetRawData ==
    /\ err = "none"
    /\ \E i \in RawIndices :
        /\ ret' = get_raw_data(m_, n_, i)
        /\ op' = [NoOp EXCEPT !.name = "get_raw_data", !.x = i]
        /\ reads' = {}
        /\ writes' = {}
        /\ UNCHANGED <<m_, n_, data_, compare_, err, elems>>

\* A tree is constructed once.
Next == Prepare \/ SetLeaf \/ GetValue \/ GetRawData

Spec == Init /\ [][Next]_vars

\* prepare may be called again on a prepared instance.
NextAgain == Prepare \/ PrepareAgain \/ SetLeaf \/ GetValue \/ GetRawData

SpecAgain == Init /\ [][NextAgain]_vars

----------------------------------------------------------------------------
(* Vocabulary of the properties *)

\* A prepared instance that has met no undefined behaviour.
Ready == m_ > 0 /\ err # "ub"

\* The last call returned.
Returned(name) == op.name = name /\ err = "none"

\* The ranges a valid query may ask for.
ValidRanges == {r \in (0 .. (m_ - 1)) \X (0 .. (m_ - 1)) : r[1] <= r[2]}

\* The first and last leaf slot below node i of a tree with n leaves.
RECURSIVE LeftmostLeaf(_, _)
LeftmostLeaf(n, i) == IF i >= n THEN i ELSE LeftmostLeaf(n, 2 * i)

RECURSIVE RightmostLeaf(_, _)
RightmostLeaf(n, i) == IF i >= n THEN i ELSE RightmostLeaf(n, 2 * i + 1)

\* Node i stands above at least one leaf that holds an element.
CoversElement(i) == LeftmostLeaf(n_, i) <= n_ + m_ - 1

\* The brute-force oracle: a left-to-right scan of e[from .. to] (0-based)
\* that replaces its candidate only by a strictly better element.
RECURSIVE LinearScan(_, _, _, _, _)
LinearScan(c, e, best, k, to) ==
    IF k > to THEN best
    ELSE LinearScan(c, e,
                    IF 0 < Compare(c, best, e[k + 1]) THEN e[k + 1] ELSE best,
                    k + 1, to)

Oracle(from, to) == LinearScan(compare_, elems, elems[from + 1], from + 1, to)

\* The positions of [from, to] whose element no element of the range beats.
BestIndices(from, to) ==
    {j \in from .. to :
        \A k \in from .. to : Compare(compare_, elems[j + 1], elems[k + 1]) <= 0}

LowestBest(from, to) ==
    LET best == BestIndices(from, to)
    IN  CHOOSE j \in best : \A k \in best : j <= k

\* The query on the current instance.
Query(from, to) == get_value(m_, n_, data_, compare_, from, to)

\* The driver of main.cpp: its array, its tree, its queries.
MainData == <<7, 2, 4, 3, 9, 8, 0, 6, 5, 1>>

MainTree == prepare(0, 0, NoData, NullCompare, FALSE, MainData, Len(MainData), "asc")

MainQuery(from, to) ==
    get_value(MainTree.m, MainTree.n, MainTree.d, MainTree.cmp, from, to).ret

Value(v) == [kind |-> "value", v |-> v]

----------------------------------------------------------------------------
(* Properties *)

\* C1: after prepare and any sequence of set_leaf calls, every valid query
\* get_value(from, to) returns the value (not a node index) that a
\* brute-force linear scan of the current elements from..to finds best; the
\* result is an element of the range, so no padding slot contributes; the
\* five queries of main.cpp return 2, 3, 0, 5, 1.
C1_QueryMatchesLinearScan ==
    /\ Ready =>
        \A r \in ValidRanges :
            LET q == Query(r[1], r[2])
            IN  /\ q.err = "none"
                /\ q.ret = Value(Oracle(r[1], r[2]))
                /\ \E j \in r[1] .. r[2] : q.ret.v = elems[j + 1]
    /\ (Returned("get_value") => ret = Value(Oracle(op.x, op.y)))
    /\ MainQuery(1, 2) = Value(2)
    /\ MainQuery(2, 4) = Value(3)
    /\ MainQuery(3, 7) = Value(0)
    /\ MainQuery(8, 8) = Value(5)
    /\ MainQuery(7, 9) = Value(1)

\* A query over several elements of a tree changed by set_leaf has returned.
C1_Witness ==
    /\ Returned("get_value")
    /\ op.x < op.y
    /\ m_ = 3
    /\ elems = <<1, 0, -1>>
    /\ compare_ = "asc"
    /\ ret = Value(-1)

\* C2: after prepare (m odd or even) and after every set_leaf, leaf slot
\* n+j holds element j, and every internal node above at least one element
\* holds its left child's value when the right child is above no element or
\* compare(left, right) <= 0, and its right child's value otherwise.
C2_TreeInvariant ==
    Ready =>
        /\ \A j \in 0 .. (m_ - 1) : data_[n_ + j] = elems[j + 1]
        /\ \A i \in 1 .. (n_ - 1) :
            CoversElement(i) =>
                data_[i] =
                    IF \/ ~CoversElement(2 * i + 1)
                       \/ Compare(compare_, data_[2 * i], data_[2 * i + 1]) <= 0
                    THEN data_[2 * i]
                    ELSE data_[2 * i + 1]

\* set_leaf has returned on a tree of three elements (an odd count, with a
\* padding leaf) whose root took its right child's value.
C2_Witness ==
    /\ Returned("set_leaf")
    /\ m_ = 3
    /\ n_ = 4
    /\ compare_ = "asc"
    /\ data_[1] = data_[3]
    /\ data_[1] # data_[2]

\* The step is a set_leaf call.
SetLeafStep == op'.name = "set_leaf" /\ err = "none"

\* C3: set_leaf(i, v) leaves the result of every valid query whose range
\* does not contain i as it was, changes no leaf slot but n+i, and leaves
\* m, n and the comparator unchanged.
C3_SetLeafFrame ==
    [][(SetLeafStep /\ m_ > 0) =>
        /\ m_' = m_ /\ n_' = n_ /\ compare_' = compare_
        /\ DOMAIN data_' = DOMAIN data_
        /\ \A j \in 0 .. (m_ - 1) :
            j # op'.x => data_'[n_ + j] = data_[n_ + j]
        /\ \A r \in ValidRanges :
            (op'.x < r[1] \/ r[2] < op'.x) =>
                get_value(m_', n_', data_', compare_', r[1], r[2]).ret
                    = Query(r[1], r[2]).ret]_vars

\* set_leaf has changed the root of a tree that has elements on both sides
\* of the one it set.
C3_Witness ==
    /\ Returned("set_leaf")
    /\ m_ = 3
    /\ op.x = 1
    /\ compare_ = "asc"
    /\ elems = <<0, -1, 1>>
    /\ 1 \in writes

\* C4: when several elements of a queried range are equally ranked and
\* best, get_value returns the one at the lowest index, after prepare and
\* after any sequence of set_leaf calls: the node found stands above that
\* index and holds that element.
C4_TieBreakLowestIndex ==
    Ready =>
        \A r \in ValidRanges :
            LET q == get_value_sub(compare_, data_, r[1] + 1, r[2] + 1, 1, 1, n_)
                j == LowestBest(r[1], r[2])
            IN  /\ Query(r[1], r[2]).ret = Value(elems[j + 1])
                /\ q.i # 0
                /\ LeftmostLeaf(n_, q.i) <= n_ + j
                /\ n_ + j <= RightmostLeaf(n_, q.i)

\* A query has returned the first of two equally ranked, different elements
\* that lie in different subtrees.
C4_Witness ==
    /\ Returned("get_value")
    /\ compare_ = "abs"
    /\ m_ = 3
    /\ elems = <<0, 1, -1>>
    /\ op.x = 1
    /\ op.y = 2
    /\ ret = Value(1)

\* The call of this step violates its precondition.
ViolatingCall ==
    \/ op'.name = "prepare" /\ (op'.isnull \/ op'.x = 0 \/ op'.cmp = NullCompare)
    \/ op'.name = "get_value" /\ (op'.x > op'.y \/ op'.y >= m_)
    \/ op'.name = "set_leaf" /\ op'.x >= m_

\* C5: a call that violates its precondition (prepare with no element, no
\* data or no comparator; get_value with from > to or to >= m; set_leaf
\* with i >= m; set_leaf or get_value before prepare) fails an assertion
\* before any slot is read or written: m, n, the comparator and the storage
\* are unchanged.
C5_FailFast ==
    [][(err = "none" /\ ViolatingCall) =>
        /\ err' = "assert"
        /\ reads' = {}
        /\ writes' = {}
        /\ UNCHANGED <<m_, n_, data_, compare_>>]_vars

\* get_value(from, m) has failed on a prepared tree.
C5_Witness ==
    /\ err = "assert"
    /\ op.name = "get_value"
    /\ m_ = 3
    /\ op.y = m_

\* n is the smallest power of two that is at least m.
SmallestPowerOfTwo(n, m) ==
    /\ \E k \in 0 .. m : n = 2 ^ k
    /\ n >= m
    /\ \A k \in 0 .. m : 2 ^ k >= m => n <= 2 ^ k

Sized ==
    IF m_ = 0 THEN n_ = 0 /\ DOMAIN data_ = {}
    ELSE SmallestPowerOfTwo(n_, m_) /\ DOMAIN data_ = 0 .. (m_ + n_ - 1)

\* C6: after prepare with m >= 1, n is the smallest power of two >= m
\* (1, 2, 8, 8, 16 for m = 1, 2, 5, 8, 10) and the storage has exactly m + n
\* slots; set_leaf and get_value never change m, n or the storage length.
C6_Sizing ==
    [][/\ Sized'
       /\ m_ > 0 => (m_' = m_ /\ n_' = n_ /\ DOMAIN data_' = DOMAIN data_)
       /\ <<grow(1, 1), grow(1, 2), grow(1, 5), grow(1, 8), grow(1, 10)>>
              = <<1, 2, 8, 8, 16>>
       /\ DOMAIN MainTree.d = 0 .. 25]_vars

\* set_leaf has returned on a tree of three elements in seven slots.
C6_Witness ==
    /\ Returned("set_leaf")
    /\ m_ = 3
    /\ n_ = 4
    /\ DOMAIN data_ = 0 .. 6

\* C7: get_raw_data(i) never fails and changes nothing; it returns a
\* reference to slot i exactly when 0 <= i < m + n, that is when the slot
\* exists, and the null pointer otherwise, so for every i before prepare.
C7_RawData ==
    [][op'.name = "get_raw_data" =>
        /\ err' = err
        /\ UNCHANGED <<m_, n_, data_, compare_>>
        /\ ret' = IF op'.x < m_ + n_ THEN [kind |-> "ref", v |-> op'.x]
                  ELSE [kind |-> "null", v |-> 0]
        /\ (ret'.kind = "ref") = (op'.x \in DOMAIN data_)
        /\ m_ = 0 => ret'.kind = "null"]_vars

\* get_raw_data has refused the first index past the storage of a prepared
\* tree.
C7_Witness ==
    /\ Returned("get_raw_data")
    /\ m_ = 3
    /\ op.x = m_ + n_
    /\ ret.kind = "null"

\* C8: slot 0 is unused: prepare and set_leaf never change it, so it keeps
\* its default value, and get_value never reads it.
C8_SlotZeroUnused ==
    /\ m_ > 0 => data_[0] = Default
    /\ op.name = "get_value" => 0 \notin reads

\* C9: valid calls never fault.  Every valid query finds a node (assert(i)
\* never fires) whose leaves all lie in [from, to], without splitting a
\* single leaf; an assertion fails only in a call that violates its
\* precondition; and every slot a call reads or writes exists.
C9_NoFault ==
    /\ err # "ub"
    /\ (reads \cup writes) \subseteq DOMAIN data_
    /\ err = "assert" =>
        \/ op.name = "prepare" /\ (op.isnull \/ op.x = 0 \/ op.cmp = NullCompare)
        \/ op.name = "get_value" /\ (op.x > op.y \/ op.y >= m_)
        \/ op.name = "set_leaf" /\ op.x >= m_
    /\ Ready =>
        \A r \in ValidRanges :
            LET q == get_value_sub(compare_, data_, r[1] + 1, r[2] + 1, 1, 1, n_)
            IN  /\ q.i # 0
                /\ ~q.deep
                /\ n_ + r[1] <= LeftmostLeaf(n_, q.i)
                /\ RightmostLeaf(n_, q.i) <= n_ + r[2]
                /\ (q.rd \cup {q.i}) \subseteq DOMAIN data_

\* prepare has returned on three elements: update stood at node 3, whose
\* right child, slot 7, is past the storage.
C9_Witness ==
    /\ Returned("prepare")
    /\ m_ = 3
    /\ 6 \in reads
    /\ 3 \in writes
    /\ 7 \notin DOMAIN data_

\* The state of a new instance after the prepare call recorded in op.
Fresh == prepare(0, 0, NoData, NullCompare, op.isnull, op.data, op.x, op.cmp)

\* C10: after prepare returns, m, n, the comparator and every slot are those
\* of a new instance prepared with the same arguments, whatever the
\* instance was before.
C10_PrepareReinitializes ==
    Returned("prepare") =>
        /\ m_ = Fresh.m
        /\ n_ = Fresh.n
        /\ compare_ = Fresh.cmp
        /\ data_ = Fresh.d

====
